---- MODULE Spec2Model ----
(***************************************************************************)
(* Model of the mock-interview backend (src/main.py): the session          *)
(* registry, the InterviewSession turn machine, the three-layer speech     *)
(* synthesis chain and the websocket handler that drives them.             *)
(*                                                                         *)
(* Python strings and byte strings are modelled as sequences of one-       *)
(* character strings; None is the one-element sequence None.  Every await  *)
(* of the handler is a control point (pc); the code between two awaits is  *)
(* one atomic action, as it is under asyncio.                              *)
(***************************************************************************)
EXTENDS Integers, Sequences, FiniteSets, TLC

\* ------------------------------------------------------------------ bounds
\* Connections accepted over a run of SpecReopen, where a client may connect
\* again after its connection has ended (Spec has one connection).
MaxOpens == 2
\* Upload requests over a run.
MaxUploads == 1
\* Personas of the catalogue that random.choice may pick in the model.
MaxPersona == 2
\* Client messages of one connection that carry no text and make a transcript
\* entry "User: [SILENCE]" (not counted: the opening call, and the first call
\* of a direct caller).
MaxSilent == 0

\* Calls of a direct caller of get_next_response that count no turn: TimeUp
\* calls, calls at the turn limit, calls whose LLM send raises (SpecSession).
MaxExtraCalls == 2
\* longest text given to clean_text_for_tts on its own
MaxTextLen == 4

\* --------------------------------------------------------------- constants
\* self.max_questions
MaxQuestions == 15

\* ------------------------------------------------------------------- text
None == <<"None">>

Upper == <<"A","B","C","D","E","F","G","H","I","J","K","L","M",
           "N","O","P","Q","R","S","T","U","V","W","X","Y","Z">>
LowerCase == <<"a","b","c","d","e","f","g","h","i","j","k","l","m",
               "n","o","p","q","r","s","t","u","v","w","x","y","z">>

\* str.lower(), one character
LowerChar(ch) ==
    IF \E i \in 1..26 : Upper[i] = ch
    THEN LowerCase[CHOOSE i \in 1..26 : Upper[i] = ch]
    ELSE ch

\* str.lower()
Lower(s) == [i \in 1..Len(s) |-> LowerChar(s[i])]

\* sub in s
Contains(sub, s) ==
    \E i \in 0..(Len(s) - Len(sub)) : SubSeq(s, i + 1, i + Len(sub)) = sub

\* characters str.strip() removes
Whitespace == {" ", "\n", "\t"}

RECURSIVE LStrip(_)
LStrip(s) ==
    IF s # <<>> /\ Head(s) \in Whitespace THEN LStrip(Tail(s)) ELSE s

RECURSIVE RStrip(_)
RStrip(s) ==
    IF s # <<>> /\ s[Len(s)] \in Whitespace
    THEN RStrip(SubSeq(s, 1, Len(s) - 1))
    ELSE s

\* str.strip()
Strip(s) == RStrip(LStrip(s))

\* re.sub(ch, '', s)
RemoveChar(ch, s) == SelectSeq(s, LAMBDA x : x # ch)

\* mutant: strip() applied before the two substitutions
clean_text_for_tts_strip_first(text) ==
    RemoveChar("#", RemoveChar("*", Strip(text)))

clean_text_for_tts(text) == Strip(RemoveChar("#", RemoveChar("*", text)))

\* the two termination phrases of get_next_response
PhraseOver == <<"i","n","t","e","r","v","i","e","w"," ","i","s"," ",
                "n","o","w"," ","o","v","e","r">>
PhraseTimeUp == <<"t","i","m","e"," ","i","s"," ","u","p">>

\* "The interview is now over. I will generate your feedback."
LimitMessage ==
    <<"T","h","e"," ">> \o PhraseOver \o
    <<"."," ","I"," ","w","i","l","l"," ","g","e","n","e","r","a","t","e"," ",
      "y","o","u","r"," ","f","e","e","d","b","a","c","k",".">>

\* not x, for x a str or None
Falsy(x) == x = None \/ x = <<>>

\* --------------------------------------------------------------- personas
PERSONAS == <<
    [name |-> "Elon Musk", voice |-> "en-US-ChristopherNeural",
     backup_tld |-> "us", gender |-> "Male"],
    [name |-> "Bill Gates", voice |-> "en-US-EricNeural",
     backup_tld |-> "ca", gender |-> "Male"],
    [name |-> "Tony Stark", voice |-> "en-GB-RyanNeural",
     backup_tld |-> "co.uk", gender |-> "Male"],
    [name |-> "Mark Zuckerberg", voice |-> "en-US-GuyNeural",
     backup_tld |-> "us", gender |-> "Male"],
    [name |-> "Donna Paulsen", voice |-> "en-US-AriaNeural",
     backup_tld |-> "us", gender |-> "Female"],
    [name |-> "Shuri", voice |-> "en-NG-EzinneNeural",
     backup_tld |-> "co.za", gender |-> "Female"],
    [name |-> "Susan Wojcicki", voice |-> "en-US-AnaNeural",
     backup_tld |-> "us", gender |-> "Female"] >>

\* the outcomes of random.choice(PERSONAS) the model draws
PersonaChoices == {i \in 1..Len(PERSONAS) : i <= MaxPersona}

\* mutant: the session built with a turn limit one too large
NewSession_limit16(resume_text, jd_text, p) ==
    [resume_text |-> resume_text,
     jd_text |-> jd_text,
     transcript |-> <<>>,
     question_count |-> 0,
     max_questions |-> MaxQuestions + 1,
     persona |-> PERSONAS[p],
     voice_id |-> PERSONAS[p].voice,
     backup_tld |-> PERSONAS[p].backup_tld,
     chat |-> 0]

\* InterviewSession.__init__; chat is the number of messages sent on self.chat
NewSession(resume_text, jd_text, p) ==
    [resume_text |-> resume_text,
     jd_text |-> jd_text,
     transcript |-> <<>>,
     question_count |-> 0,
     max_questions |-> MaxQuestions,
     persona |-> PERSONAS[p],
     voice_id |-> PERSONAS[p].voice,
     backup_tld |-> PERSONAS[p].backup_tld,
     chat |-> 0]

\* ------------------------------------------------------ InterviewSession
\* prompts handed to self.chat.send_message
TimeUpPrompt == [kind |-> "time_up", user_input |-> None, name |-> ""]
StartPrompt == [kind |-> "start", user_input |-> None, name |-> ""]
FeedbackPrompt == [kind |-> "feedback", user_input |-> None, name |-> ""]
NudgePrompt(s) == [kind |-> "nudge", user_input |-> None, name |-> s.persona.name]
AnswerPrompt(user_input) == [kind |-> "answer", user_input |-> user_input, name |-> ""]
NoPrompt == [kind |-> "none", user_input |-> None, name |-> ""]

\* mutant: the limit test written with >
LimitReached_gt(s) == s.question_count > s.max_questions

\* self.question_count >= self.max_questions
LimitReached(s) == s.question_count >= s.max_questions

\* the prompt of a call that reaches the LLM on the normal path
BuildPrompt(s, user_input, is_silence_trigger) ==
    IF is_silence_trigger THEN NudgePrompt(s)
    ELSE IF s.question_count = 0 /\ Falsy(user_input) THEN StartPrompt
    ELSE AnswerPrompt(user_input)

\* mutant: the turn limit tested before the time-up flag
get_next_response_call_limit_first(s, user_input, is_silence_trigger, is_time_up) ==
    IF LimitReached(s)
    THEN [kind |-> "return", prompt |-> NoPrompt,
          text |-> LimitMessage, finished |-> TRUE]
    ELSE IF is_time_up
    THEN [kind |-> "await", prompt |-> TimeUpPrompt,
          text |-> None, finished |-> FALSE]
    ELSE [kind |-> "await",
          prompt |-> BuildPrompt(s, user_input, is_silence_trigger),
          text |-> None, finished |-> FALSE]

\* get_next_response up to its await (or its return, when it has none):
\* "await" carries the prompt sent, "return" the returned pair
get_next_response_call(s, user_input, is_silence_trigger, is_time_up) ==
    IF is_time_up
    THEN [kind |-> "await", prompt |-> TimeUpPrompt,
          text |-> None, finished |-> FALSE]
    ELSE IF LimitReached(s)
    THEN [kind |-> "return", prompt |-> NoPrompt,
          text |-> LimitMessage, finished |-> TRUE]
    ELSE [kind |-> "await",
          prompt |-> BuildPrompt(s, user_input, is_silence_trigger),
          text |-> None, finished |-> FALSE]

\* the termination test on the sanitized reply
IsFinished(ai_text) ==
    \/ Contains(PhraseOver, Lower(ai_text))
    \/ Contains(PhraseTimeUp, Lower(ai_text))

\* the two transcript entries of a turn
UserEntry(user_input) ==
    [speaker |-> "User", name |-> "",
     text |-> IF Falsy(user_input) THEN <<"[","S","I","L","E","N","C","E","]">>
              ELSE user_input]
AIEntry(s, ai_text) ==
    [speaker |-> "AI", name |-> s.persona.name, text |-> ai_text]

\* self.question_count += 1
CountTurn(s) == [s EXCEPT !.question_count = @ + 1]

\* mutant: the two appends in the other order
AppendTurn_ai_first(s, user_input, ai_text) ==
    [s EXCEPT !.transcript = @ \o <<AIEntry(s, ai_text), UserEntry(user_input)>>]

\* mutant: the transcript replaced by the turn's two entries
AppendTurn_rewrites(s, user_input, ai_text) ==
    [s EXCEPT !.transcript = <<UserEntry(user_input), AIEntry(s, ai_text)>>]

\* the two self.transcript.append calls
AppendTurn(s, user_input, ai_text) ==
    [s EXCEPT !.transcript = @ \o <<UserEntry(user_input), AIEntry(s, ai_text)>>]

\* mutant: the TimeUp reply counted as a turn
get_next_response_resume_time_up_counts(s, user_input, is_time_up, response_text) ==
    LET ai_text == clean_text_for_tts(response_text) IN
    IF is_time_up
    THEN [session |-> CountTurn(s), text |-> ai_text, finished |-> TRUE]
    ELSE [session |-> AppendTurn(CountTurn(s), user_input, ai_text),
          text |-> ai_text, finished |-> IsFinished(ai_text)]

\* get_next_response from the LLM's reply to its return: the session after
\* the call and the returned pair
get_next_response_resume(s, user_input, is_time_up, response_text) ==
    LET ai_text == clean_text_for_tts(response_text) IN
    IF is_time_up
    THEN [session |-> s, text |-> ai_text, finished |-> TRUE]
    ELSE [session |-> AppendTurn(CountTurn(s), user_input, ai_text),
          text |-> ai_text, finished |-> IsFinished(ai_text)]

\* self.chat.send_message issued on the session's conversation handle
SendMessage(s) == [s EXCEPT !.chat = @ + 1]

\* ------------------------------------------------- generate_audio_stream
\* what a synthesis layer can do: produce audio, produce nothing, exceed its
\* wait_for timeout, or raise
LayerOutcomes == {"ok", "empty", "timeout", "error"}
\* layer 3 runs under no wait_for
Layer3Outcomes == {"ok", "empty", "error"}

\* audio bytes of the three backends
EdgeAudio == <<"E", "1">>
AccentAudio == <<"G", "a">>
StdAudio == <<"G", "u">>

\* base64.b64encode(data).decode("utf-8"): empty for empty data
b64encode(data) == IF data = <<>> THEN <<>> ELSE <<"b64:">> \o data

\* what the layer's backend hands back
LayerData(outcome, audio) == IF outcome = "ok" THEN audio ELSE <<>>

\* the exception a failing layer raises
Raised(outcome) == IF outcome = "timeout" THEN "TimeoutError" ELSE "OtherError"

\* isinstance(exc, Exception): asyncio.TimeoutError derives from Exception
IsException(exc) == exc \in {"TimeoutError", "OtherError"}

\* except (asyncio.TimeoutError, Exception)
Layer1Catches(exc) == exc = "TimeoutError" \/ IsException(exc)
\* mutant: an except clause that names the backend's own error only
Layer2Catches_narrow(exc) == exc = "OtherError"

\* except Exception (layers 2 and 3)
Layer2Catches(exc) == IsException(exc)
Layer3Catches(exc) == IsException(exc)

\* the try block of each layer: "return" a payload, "fall" out of the block
\* without returning, or "raise"
Layer1Try(o) ==
    IF o \in {"timeout", "error"}
    THEN [kind |-> "raise", value |-> <<>>, exc |-> Raised(o)]
    ELSE IF Len(LayerData(o, EdgeAudio)) > 0
    THEN [kind |-> "return", value |-> b64encode(LayerData(o, EdgeAudio)), exc |-> ""]
    ELSE [kind |-> "fall", value |-> <<>>, exc |-> ""]

Layer2Try(o) ==
    IF o \in {"timeout", "error"}
    THEN [kind |-> "raise", value |-> <<>>, exc |-> Raised(o)]
    ELSE [kind |-> "return", value |-> b64encode(LayerData(o, AccentAudio)), exc |-> ""]

Layer3Try(o) ==
    IF o \in {"timeout", "error"}
    THEN [kind |-> "raise", value |-> <<>>, exc |-> Raised(o)]
    ELSE [kind |-> "return", value |-> b64encode(LayerData(o, StdAudio)), exc |-> ""]

\* generate_audio_stream under the outcomes o1, o2, o3 of its layers: whether
\* it raised, the payload returned and the number of layers attempted
generate_audio_stream(o1, o2, o3) ==
    LET t1 == Layer1Try(o1)
        t2 == Layer2Try(o2)
        t3 == Layer3Try(o3)
    IN  IF t1.kind = "return"
        THEN [raised |-> FALSE, value |-> t1.value, attempted |-> 1]
        ELSE IF t1.kind = "raise" /\ ~Layer1Catches(t1.exc)
        THEN [raised |-> TRUE, value |-> <<>>, attempted |-> 1]
        ELSE IF t2.kind = "return"
        THEN [raised |-> FALSE, value |-> t2.value, attempted |-> 2]
        ELSE IF t2.kind = "raise" /\ ~Layer2Catches(t2.exc)
        THEN [raised |-> TRUE, value |-> <<>>, attempted |-> 2]
        ELSE IF t3.kind = "return"
        THEN [raised |-> FALSE, value |-> t3.value, attempted |-> 3]
        ELSE IF t3.kind = "raise" /\ ~Layer3Catches(t3.exc)
        THEN [raised |-> TRUE, value |-> <<>>, attempted |-> 3]
        ELSE [raised |-> FALSE, value |-> <<>>, attempted |-> 3]

\* ------------------------------------------------------------------ state
\* session ids the upload endpoint can hand out (uuid4) and ids it never did
SessionIds == {"s1"}
UnknownIds == {"s0"}
AllIds == SessionIds \cup UnknownIds

\* websocket connections; Spec drives the first one, one connection at a time
Chans == {1, 2}
SeqChans == {1}

\* raw LLM replies (response.text)
ReplyQuestion == <<"*", "Q", "*", " ">>
ReplyTimeUp == <<"#", " ", "T", "i", "m", "e", " ", "I", "s", " ", "U", "p">>
ReplyOver == PhraseOver \o <<"*">>
Replies == {ReplyQuestion, ReplyTimeUp, ReplyOver}

\* client messages: data.get("type") and data.get("text")
MsgTypes == {"answer", "silence_timeout", "time_up"}
ClientTexts == {None, <<"a">>}

\* layer outcomes the handler's synthesis calls draw: every return path of
\* generate_audio_stream (SpecSynth runs all combinations)
HandlerSynthCases ==
    {<<"ok", "ok", "ok">>, <<"empty", "ok", "ok">>, <<"timeout", "empty", "ok">>,
     <<"timeout", "error", "ok">>, <<"timeout", "error", "error">>}

\* close code of a channel opened on an unknown session id
CloseNotFound == 4004

VARIABLES
    sessions,         \* keys of the registry dict `sessions`
    objects,          \* the InterviewSession objects, by the id they were created under
    ws,               \* per connection: the websocket_endpoint coroutine's frame
    opens,            \* connections accepted so far
    uploads,          \* upload requests served so far
    upload_response,  \* HTTP status of the last upload request
    synth,            \* a generate_audio_stream call on its own (SpecSynth)
    cleaned           \* a clean_text_for_tts call on its own (SpecClean)

vars == <<sessions, objects, ws, opens, uploads, upload_response, synth, cleaned>>

NoArgs == [user_input |-> None, is_silence_trigger |-> FALSE, is_time_up |-> FALSE]
NoMessage == [type |-> "none", data |-> <<>>, text |-> <<>>, is_finished |-> FALSE]
NoTts == <<>>
NoSynth ==
    [text |-> <<>>, voice_id |-> "", backup_tld |-> "", o |-> <<>>, done |-> FALSE,
     result |-> [raised |-> FALSE, value |-> <<>>, attempted |-> 0]]

NoClean == [text |-> <<>>, done |-> FALSE, once |-> <<>>, twice |-> <<>>]

\* a connection nobody has opened
IdleFrame ==
    [pc |-> "idle", session_id |-> "", q_at_open |-> 0, phase |-> "initial",
     args |-> NoArgs, prompt |-> NoPrompt,
     is_time_up |-> FALSE,
     ai_text |-> None, is_finished |-> FALSE, returned |-> FALSE,
     audio_b64 |-> None, tts |-> NoTts,
     client_open |-> FALSE, close_code |-> 0, ending |-> "",
     out |-> NoMessage, n_audio |-> 0, n_feedback |-> 0, n_recv |-> 0,
     n_silent |-> 0]

Init ==
    /\ sessions = {}
    /\ objects = <<>>
    /\ ws = [c \in Chans |-> IdleFrame]
    /\ opens = 0
    /\ uploads = 0
    /\ upload_response = 0
    /\ synth = NoSynth
    /\ cleaned = NoClean

\* ------------------------------------------------------------ upload_context
\* the resume document: none uploaded, a PDF with text, a PDF whose pages
\* extract to nothing, a file pdfplumber cannot open
ResumeDocs == {"none", "pdf_text", "pdf_blank", "pdf_broken"}
ResumeTexts == {None, <<"r">>}
JdTexts == {None, <<"j">>}

\* the text pdfplumber extracts
ExtractText(resume) == IF resume = "pdf_text" THEN <<"r">> ELSE <<>>

\* final_resume_text of a request that gets past validation and extraction
FinalResumeText(resume, resume_text) ==
    IF resume # "none" THEN ExtractText(resume)
    ELSE IF ~Falsy(resume_text) THEN resume_text
    ELSE <<>>

UploadContext(resume, resume_text, jd) ==
    /\ uploads < MaxUploads
    /\ uploads' = uploads + 1
    /\ IF jd = None
       THEN \* Form(...) is required: the request is rejected before the body runs
            /\ upload_response' = 422
            /\ UNCHANGED <<sessions, objects>>
       ELSE IF resume = "pdf_broken"
       THEN \* pdfplumber.open raises; nothing catches it
            /\ upload_response' = 500
            /\ UNCHANGED <<sessions, objects>>
       ELSE \E id \in SessionIds \ DOMAIN objects, p \in PersonaChoices :
            /\ upload_response' = 200
            /\ sessions' = sessions \cup {id}
            /\ objects' = [i \in DOMAIN objects \cup {id} |->
                            IF i = id
                            THEN NewSession(FinalResumeText(resume, resume_text), jd, p)
                            ELSE objects[i]]
    /\ UNCHANGED <<ws, opens, synth, cleaned>>

\* -------------------------------------------------------- websocket_endpoint
Session(c) == objects[ws[c].session_id]

\* the frame once the handler has ended: its locals are gone
Ended(f, how, code) ==
    [IdleFrame EXCEPT !.pc = "closed", !.session_id = f.session_id,
                      !.q_at_open = f.q_at_open,
                      !.client_open = f.client_open,
                      !.ending = how, !.close_code = code, !.out = NoMessage,
                      !.n_audio = f.n_audio, !.n_feedback = f.n_feedback,
                      !.n_recv = f.n_recv]

\* except WebSocketDisconnect: the registry without the handler's session
Cleanup(session_id) == sessions \ {session_id}

\* get_next_response has returned (text, finished) to the handler, which goes
\* on into generate_audio_stream; the opening call drops the flag
Returned(f, text, finished) ==
    [f EXCEPT !.pc = "tts", !.args = NoArgs, !.prompt = NoPrompt,
              !.tts = NoTts, !.ai_text = text, !.returned = finished,
              !.is_finished = IF f.phase = "loop" THEN finished ELSE @,
              !.out = NoMessage]

\* the handler calls session.get_next_response(user_input, ...) from frame f
CallNextResponse(c, f, user_input, is_silence, is_time_up) ==
    LET s == objects[f.session_id]
        r == get_next_response_call(s, user_input, is_silence, is_time_up)
    IN  IF r.kind = "await"
        THEN /\ objects' = [objects EXCEPT ![f.session_id] = SendMessage(s)]
             /\ ws' = [ws EXCEPT ![c] =
                        [f EXCEPT !.pc = "llm", !.prompt = r.prompt,
                                  !.out = NoMessage, !.tts = NoTts,
                                  !.args = [user_input |-> user_input,
                                            is_silence_trigger |-> is_silence,
                                            is_time_up |-> is_time_up]]]
        ELSE /\ objects' = objects
             /\ ws' = [ws EXCEPT ![c] = Returned(f, r.text, r.finished)]

\* mutant: an unknown session id closed with the normal-closure code
Connect_normal_close(c, session_id) ==
    /\ opens' = opens + 1
    /\ IF session_id \notin sessions
       THEN /\ ws' = [ws EXCEPT ![c] =
                       Ended([IdleFrame EXCEPT !.session_id = session_id],
                             "rejected", 1000)]
            /\ UNCHANGED objects
       ELSE CallNextResponse(c,
                [IdleFrame EXCEPT !.session_id = session_id,
                                  !.client_open = TRUE,
                                  !.q_at_open = objects[session_id].question_count],
                None, FALSE, FALSE)
    /\ UNCHANGED <<sessions, uploads, upload_response, synth, cleaned>>

\* websocket_endpoint from accept to its first await: look the session up,
\* make the opening call
Connect(c, session_id) ==
    /\ opens' = opens + 1
    /\ IF session_id \notin sessions
       THEN /\ ws' = [ws EXCEPT ![c] =
                       Ended([IdleFrame EXCEPT !.session_id = session_id],
                             "rejected", CloseNotFound)]
            /\ UNCHANGED objects
       ELSE CallNextResponse(c,
                [IdleFrame EXCEPT !.session_id = session_id,
                                  !.client_open = TRUE,
                                  !.q_at_open = objects[session_id].question_count],
                None, FALSE, FALSE)
    /\ UNCHANGED <<sessions, uploads, upload_response, synth, cleaned>>

\* a client connects to /ws/interview/{session_id}
Open(c, session_id) ==
    /\ ws[c].pc = "idle"
    /\ Connect(c, session_id)

\* a client whose connection has ended connects again
Reopen(c, session_id) ==
    /\ ws[c].pc = "closed"
    /\ opens < MaxOpens
    /\ Connect(c, session_id)

\* self.chat.send_message returns response inside get_next_response
LLMReply(c, response) ==
    /\ ws[c].pc = "llm"
    /\ LET f == ws[c]
           r == get_next_response_resume(Session(c), f.args.user_input,
                                         f.args.is_time_up, response)
       IN  /\ objects' = [objects EXCEPT ![f.session_id] = r.session]
           /\ ws' = [ws EXCEPT ![c] = Returned(f, r.text, r.finished)]
    /\ UNCHANGED <<sessions, opens, uploads, upload_response, synth, cleaned>>

\* self.chat.send_message raises (in get_next_response or generate_feedback):
\* nothing catches it, the handler ends and the server drops the connection
LLMError(c) ==
    /\ ws[c].pc \in {"llm", "llm_feedback"}
    /\ ws' = [ws EXCEPT ![c] = Ended(@, "raised", 0)]
    /\ UNCHANGED <<sessions, objects, opens, uploads, upload_response, synth, cleaned>>

\* generate_audio_stream(ai_text, session.voice_id, session.backup_tld) runs
\* under the layer outcomes o
Synthesize(c, o) ==
    /\ ws[c].pc = "tts"
    /\ LET r == generate_audio_stream(o[1], o[2], o[3]) IN
       ws' = [ws EXCEPT ![c] =
               IF r.raised THEN Ended(@, "synth_raised", 0)
               ELSE [@ EXCEPT !.pc = "send_audio", !.audio_b64 = r.value,
                              !.tts = o]]
    /\ UNCHANGED <<sessions, objects, opens, uploads, upload_response, synth, cleaned>>

\* mutant: the audio message built without the turn's text
AudioMessage_no_text(f) ==
    [type |-> "audio", data |-> f.audio_b64, text |-> <<>>, is_finished |-> FALSE]

\* the audio message of lines 298, 318 and 328
AudioMessage(f) ==
    [type |-> "audio", data |-> f.audio_b64, text |-> f.ai_text, is_finished |-> FALSE]

\* the handler after the turn's audio send_json: on to receive_json, or into
\* generate_feedback when the turn was terminal
AfterAudio(c, f) ==
    IF f.phase = "loop" /\ f.is_finished
    THEN /\ objects' = [objects EXCEPT ![f.session_id] = SendMessage(@)]
         /\ ws' = [ws EXCEPT ![c] =
                    [f EXCEPT !.pc = "llm_feedback", !.prompt = FeedbackPrompt,
                              !.ai_text = None, !.audio_b64 = None,
                              !.returned = FALSE]]
    ELSE /\ objects' = objects
         /\ ws' = [ws EXCEPT ![c] =
                    [f EXCEPT !.pc = "receive", !.phase = "loop",
                              !.ai_text = None, !.audio_b64 = None,
                              !.returned = FALSE]]

\* websocket.send_json of the turn's audio message, the client connected
SendAudio(c) ==
    /\ ws[c].pc = "send_audio"
    /\ ws[c].client_open
    /\ AfterAudio(c, [ws[c] EXCEPT !.out = AudioMessage(ws[c]), !.n_audio = @ + 1])
    /\ UNCHANGED <<sessions, opens, uploads, upload_response, synth, cleaned>>

\* generate_feedback's reply arrives; on to the feedback send_json
FeedbackReply(c, response) ==
    /\ ws[c].pc = "llm_feedback"
    /\ ws' = [ws EXCEPT ![c] =
               [@ EXCEPT !.pc = "send_feedback", !.prompt = NoPrompt,
                         !.ai_text = clean_text_for_tts(response),
                         !.out = NoMessage]]
    /\ UNCHANGED <<sessions, objects, opens, uploads, upload_response, synth, cleaned>>

FeedbackMessage(f) ==
    [type |-> "feedback", data |-> <<>>, text |-> f.ai_text, is_finished |-> TRUE]

\* mutant: the feedback send_json without the break after it
SendFeedback_no_break(c) ==
    /\ ws[c].pc = "send_feedback"
    /\ ws[c].client_open
    /\ ws' = [ws EXCEPT ![c] =
               [@ EXCEPT !.pc = "receive", !.n_feedback = @ + 1,
                         !.out = FeedbackMessage(ws[c]), !.ai_text = None]]
    /\ UNCHANGED <<sessions, objects, opens, uploads, upload_response, synth, cleaned>>

\* the feedback send_json, then break: the handler returns and the server
\* closes the connection; the registry is left as it is
SendFeedback(c) ==
    /\ ws[c].pc = "send_feedback"
    /\ ws[c].client_open
    /\ ws' = [ws EXCEPT ![c] =
               [Ended([@ EXCEPT !.n_feedback = @ + 1], "returned", 0)
                  EXCEPT !.out = FeedbackMessage(ws[c])]]
    /\ UNCHANGED <<sessions, objects, opens, uploads, upload_response, synth, cleaned>>

\* send_json on a connection the client has left, on a server that lets the
\* send pass: nothing is delivered and the handler goes on
SendDropped(c) ==
    /\ ws[c].pc \in {"send_audio", "send_feedback"}
    /\ ~ws[c].client_open
    /\ IF ws[c].pc = "send_audio"
       THEN AfterAudio(c, [ws[c] EXCEPT !.out = NoMessage])
       ELSE /\ ws' = [ws EXCEPT ![c] = Ended(@, "returned", 0)]
            /\ objects' = objects
    /\ UNCHANGED <<sessions, opens, uploads, upload_response, synth, cleaned>>

\* receive_json, or send_json on a server that reports the lost peer, raises
\* WebSocketDisconnect: the except clause deletes the session
Disconnected(c) ==
    /\ ws[c].pc \in {"receive", "send_audio", "send_feedback"}
    /\ ~ws[c].client_open
    /\ sessions' = Cleanup(ws[c].session_id)
    /\ ws' = [ws EXCEPT ![c] = Ended(@, "disconnected", 0)]
    /\ UNCHANGED <<objects, opens, uploads, upload_response, synth, cleaned>>

\* a client message that will make a [SILENCE] transcript entry
MakesSilentEntry(s, msg_type, user_text) ==
    msg_type # "time_up" /\ Falsy(user_text) /\ ~LimitReached(s)

\* receive_json delivers a client message; the handler calls get_next_response
ReceiveJson(c, msg_type, user_text) ==
    /\ ws[c].pc = "receive"
    /\ ws[c].client_open
    /\ CallNextResponse(c, [ws[c] EXCEPT !.n_recv = @ + 1,
                                         !.n_silent =
                                            IF MakesSilentEntry(Session(c), msg_type,
                                                                user_text)
                                            THEN @ + 1 ELSE @,
                                         !.is_time_up = (msg_type = "time_up")],
                        user_text,
                        msg_type = "silence_timeout", msg_type = "time_up")
    /\ UNCHANGED <<sessions, opens, uploads, upload_response, synth, cleaned>>

\* a client message arrives on the connection
Receive(c, msg_type, user_text) ==
    /\ ws[c].pc = "receive"
    /\ MakesSilentEntry(Session(c), msg_type, user_text)
         => ws[c].n_silent < MaxSilent
    /\ ReceiveJson(c, msg_type, user_text)

\* the client closes its end of the connection
ClientClose(c) ==
    /\ ws[c].pc \notin {"idle", "closed"}
    /\ ws[c].client_open
    /\ ws' = [ws EXCEPT ![c].client_open = FALSE]
    /\ UNCHANGED <<sessions, objects, opens, uploads, upload_response, synth, cleaned>>

Handler(c) ==
    \/ \E session_id \in AllIds : Open(c, session_id)
    \/ \E response \in Replies : LLMReply(c, response)
    \/ LLMError(c)
    \/ \E o \in HandlerSynthCases : Synthesize(c, o)
    \/ SendAudio(c)
    \/ \E response \in Replies : FeedbackReply(c, response)
    \/ SendFeedback(c)
    \/ SendDropped(c)
    \/ Disconnected(c)
    \/ \E msg_type \in MsgTypes, user_text \in ClientTexts :
          Receive(c, msg_type, user_text)
    \/ ClientClose(c)

\* any upload request
Upload ==
    \E resume \in ResumeDocs, resume_text \in ResumeTexts, jd \in JdTexts :
        UploadContext(resume, resume_text, jd)

\* the upload requests that create a session
UploadAccepted ==
    \E resume \in ResumeDocs \ {"pdf_broken"}, resume_text \in ResumeTexts,
       jd \in JdTexts \ {None} :
        UploadContext(resume, resume_text, jd)

Next ==
    \/ UploadAccepted
    \/ \E c \in SeqChans : Handler(c)

Spec == Init /\ [][Next]_vars

\* Spec with every upload request, the rejected and the failing ones too
NextUpload ==
    \/ Upload
    \/ \E c \in SeqChans : Handler(c)

SpecUpload == Init /\ [][NextUpload]_vars

\* two connections at once, their handlers interleaving at the awaits; here
\* the clients stay connected and send answers, the LLM answers with a
\* question and the first synthesis layer delivers
NextConc ==
    \/ UploadAccepted
    \/ \E c \in Chans :
        \/ \E session_id \in AllIds : Open(c, session_id)
        \/ LLMReply(c, ReplyQuestion)
        \/ Synthesize(c, <<"ok", "ok", "ok">>)
        \/ SendAudio(c)
        \/ FeedbackReply(c, ReplyQuestion)
        \/ SendFeedback(c)
        \/ Receive(c, "answer", <<"a">>)

SpecConc == Init /\ [][NextConc]_vars

\* Spec with clients that connect again once the server has ended their
\* connection; here the client stays connected, the LLM answers and the first
\* synthesis layer delivers
NextReopen ==
    \/ UploadAccepted
    \/ \E c \in SeqChans :
        \/ \E session_id \in AllIds : Open(c, session_id)
        \/ \E session_id \in AllIds : Reopen(c, session_id)
        \/ \E response \in Replies : LLMReply(c, response)
        \/ Synthesize(c, <<"ok", "ok", "ok">>)
        \/ SendAudio(c)
        \/ \E response \in Replies : FeedbackReply(c, response)
        \/ SendFeedback(c)
        \/ \E msg_type \in MsgTypes, user_text \in ClientTexts :
              Receive(c, msg_type, user_text)

SpecReopen == Init /\ [][NextReopen]_vars

\* ------------------------------------------------ a direct caller (SpecSession)
\* a caller takes the session from the registry to call get_next_response
\* itself, with no opening call
Attach(c, session_id) ==
    /\ ws[c].pc = "idle"
    /\ session_id \in sessions
    /\ opens' = opens + 1
    /\ ws' = [ws EXCEPT ![c] =
               [IdleFrame EXCEPT !.pc = "receive", !.phase = "loop",
                                 !.session_id = session_id, !.client_open = TRUE,
                                 !.q_at_open = objects[session_id].question_count]]
    /\ UNCHANGED <<sessions, objects, uploads, upload_response, synth, cleaned>>

\* the caller calls get_next_response with any signal and text
DirectCall(c, msg_type, user_text) ==
    /\ ws[c].pc = "receive"
    /\ ws[c].n_recv - Session(c).question_count < MaxExtraCalls
    /\ MakesSilentEntry(Session(c), msg_type, user_text)
         => (ws[c].n_recv = 0 \/ ws[c].n_silent < MaxSilent)
    /\ ReceiveJson(c, msg_type, user_text)

\* the caller takes the returned pair and is ready to call again; it stops
\* calling once a reply carried a termination phrase
NextCall(c) ==
    /\ ws[c].pc = "tts"
    /\ ws[c].returned => (ws[c].is_time_up \/ ws[c].ai_text = LimitMessage)
    /\ ws' = [ws EXCEPT ![c] = [@ EXCEPT !.pc = "receive"]]
    /\ UNCHANGED <<sessions, objects, opens, uploads, upload_response, synth, cleaned>>

\* send_message raises out of get_next_response; the caller goes on
CallRaised(c) ==
    /\ ws[c].pc = "llm"
    /\ ws' = [ws EXCEPT ![c] =
               [@ EXCEPT !.pc = "receive", !.args = NoArgs, !.prompt = NoPrompt]]
    /\ UNCHANGED <<sessions, objects, opens, uploads, upload_response, synth, cleaned>>

NextSession ==
    \/ UploadAccepted
    \/ \E c \in SeqChans :
        \/ \E session_id \in SessionIds : Attach(c, session_id)
        \/ \E msg_type \in MsgTypes, user_text \in ClientTexts :
              DirectCall(c, msg_type, user_text)
        \/ \E response \in Replies : LLMReply(c, response)
        \/ CallRaised(c)
        \/ NextCall(c)

SpecSession == Init /\ [][NextSession]_vars

\* --------------------------------- generate_audio_stream on its own (SpecSynth)
SynthTexts == {<<"Q">>, LimitMessage}

\* a call generate_audio_stream(text, voice_id, backup_tld) about to run under
\* layer outcomes o
SynthCalls ==
    {[text |-> t, voice_id |-> PERSONAS[p].voice, backup_tld |-> PERSONAS[p].backup_tld,
      o |-> <<o1, o2, o3>>, done |-> FALSE,
      result |-> [raised |-> FALSE, value |-> <<>>, attempted |-> 0]] :
        t \in SynthTexts, p \in 1..Len(PERSONAS),
        o1 \in LayerOutcomes, o2 \in LayerOutcomes, o3 \in Layer3Outcomes}

InitSynth ==
    /\ sessions = {}
    /\ objects = <<>>
    /\ ws = [c \in Chans |-> IdleFrame]
    /\ opens = 0
    /\ uploads = 0
    /\ upload_response = 0
    /\ synth \in SynthCalls
    /\ cleaned = NoClean

SynthRun ==
    /\ ~synth.done
    /\ synth' = [synth EXCEPT !.done = TRUE,
                              !.result = generate_audio_stream(synth.o[1], synth.o[2],
                                                               synth.o[3])]
    /\ UNCHANGED <<sessions, objects, ws, opens, uploads, upload_response, cleaned>>

SpecSynth == InitSynth /\ [][SynthRun]_vars

\* ------------------------------------- clean_text_for_tts on its own (SpecClean)
CleanAlphabet == {"*", "#", " ", "\n", "a"}

\* every text over the alphabet up to the length bound
CleanTexts == UNION {[1..n -> CleanAlphabet] : n \in 0..MaxTextLen}

InitClean ==
    /\ sessions = {}
    /\ objects = <<>>
    /\ ws = [c \in Chans |-> IdleFrame]
    /\ opens = 0
    /\ uploads = 0
    /\ upload_response = 0
    /\ synth = NoSynth
    /\ cleaned \in {[NoClean EXCEPT !.text = t] : t \in CleanTexts}

\* clean_text_for_tts(text), then clean_text_for_tts of what it returned
CleanRun ==
    /\ ~cleaned.done
    /\ cleaned' = [cleaned EXCEPT
                     !.done = TRUE,
                     !.once = clean_text_for_tts(cleaned.text),
                     !.twice = clean_text_for_tts(clean_text_for_tts(cleaned.text))]
    /\ UNCHANGED <<sessions, objects, ws, opens, uploads, upload_response, synth>>

SpecClean == InitClean /\ [][CleanRun]_vars

\* ------------------------------------------------------------------ claims
\* the step in which the caller of frame c calls get_next_response: the
\* opening call of a connection, or the call made for a received message
AdvanceCalled(c) ==
    \/ ws[c].pc \in {"idle", "closed"} /\ ws'[c].pc \in {"llm", "tts"}
    \/ ws[c].pc = "receive" /\ ws'[c].n_recv = ws[c].n_recv + 1

\* the step in which the call's LLM reply arrives and get_next_response returns
AdvanceReplied(c) == ws[c].pc = "llm" /\ ws'[c].pc = "tts"

\* C1: in every reachable state, question_count of every session lies
\* between 0 and max_questions = 15, whatever calls and replies came before.
C1_TurnCountBounded ==
    \A id \in DOMAIN objects :
        /\ objects[id].max_questions = MaxQuestions
        /\ objects[id].question_count \in 0..objects[id].max_questions

\* a session that has counted all its 15 turns
C1_Witness ==
    \E id \in DOMAIN objects : objects[id].question_count = MaxQuestions

\* C2 as claimed: a call made at question_count = max_questions, whatever its
\* signal, returns finished = TRUE at once and sends nothing on self.chat.
C2_Original ==
    [][\A c \in Chans :
        (/\ AdvanceCalled(c)
         /\ objects[ws'[c].session_id].question_count
              = objects[ws'[c].session_id].max_questions)
        => /\ ws'[c].pc = "tts"
           /\ ws'[c].returned
           /\ objects'[ws'[c].session_id].chat = objects[ws'[c].session_id].chat]_vars

\* C2 amended: a call made at question_count = max_questions with an Answer
\* or Silence signal returns finished = TRUE at once, with the fixed message,
\* and sends nothing on self.chat.
C2_LimitShortCircuit ==
    [][\A c \in Chans :
        (/\ AdvanceCalled(c)
         /\ ~ws'[c].is_time_up
         /\ objects[ws'[c].session_id].question_count
              = objects[ws'[c].session_id].max_questions)
        => /\ ws'[c].pc = "tts"
           /\ ws'[c].returned
           /\ ws'[c].ai_text = LimitMessage
           /\ objects'[ws'[c].session_id].chat = objects[ws'[c].session_id].chat]_vars

\* a call with an Answer or Silence signal has been short-circuited at the limit
C2_Witness ==
    \E c \in Chans :
        /\ ws[c].pc = "tts"
        /\ ws[c].n_recv > 0
        /\ ~ws[c].is_time_up
        /\ ws[c].returned
        /\ ws[c].ai_text = LimitMessage
        /\ Session(c).question_count = Session(c).max_questions

\* C3: a call with the TimeUp signal, at any question_count and whatever its
\* text, sends the termination instruction on self.chat, and returns
\* finished = TRUE whatever the reply.
C3_TimeUpTerminates ==
    [][\A c \in Chans :
        /\ (AdvanceCalled(c) /\ ws'[c].is_time_up)
            => /\ ws'[c].pc = "llm"
               /\ ws'[c].prompt = TimeUpPrompt
               /\ objects'[ws'[c].session_id].chat
                    = objects[ws'[c].session_id].chat + 1
        /\ (AdvanceReplied(c) /\ ws[c].is_time_up)
            => /\ ws'[c].returned
               /\ ws'[c].is_finished]_vars

\* a TimeUp call made at question_count = 0 has returned finished = TRUE, and
\* so has one made at question_count = max_questions
C3_Witness ==
    \E c \in Chans :
        /\ ws[c].pc = "tts"
        /\ ws[c].is_time_up
        /\ ws[c].returned
        /\ ws[c].ai_text # LimitMessage
        /\ Session(c).question_count = 0

\* the call has recorded one turn: question_count one higher, the transcript
\* longer by a user entry followed by an assistant entry
TurnRecorded(c) ==
    LET old == objects[ws[c].session_id]
        new == objects'[ws[c].session_id]
        n == Len(old.transcript)
    IN  /\ new.question_count = old.question_count + 1
        /\ Len(new.transcript) = n + 2
        /\ SubSeq(new.transcript, 1, n) = old.transcript
        /\ new.transcript[n + 1].speaker = "User"
        /\ new.transcript[n + 2].speaker = "AI"

\* C4 as claimed: every call that is not short-circuited by the turn limit
\* (every call that reaches the LLM and returns) records one turn.
C4_Original ==
    [][\A c \in Chans : AdvanceReplied(c) => TurnRecorded(c)]_vars

\* C4 amended: every call that is neither a TimeUp call nor short-circuited
\* by the turn limit, and whose LLM send returns a reply, records one turn.
C4_TurnRecorded ==
    [][\A c \in Chans :
        (AdvanceReplied(c) /\ ~ws[c].args.is_time_up) => TurnRecorded(c)]_vars

\* a first turn has been recorded
C4_Witness ==
    \E c \in Chans :
        /\ ws[c].pc = "tts"
        /\ ~ws[c].is_time_up
        /\ Session(c).question_count = 1
        /\ Len(Session(c).transcript) = 2
        /\ Session(c).transcript[1].speaker = "User"
        /\ Session(c).transcript[2].speaker = "AI"

\* C5: on a fresh session driven over one connection, with client messages
\* that are no time_up: while fewer than 15 messages have come and the reply
\* carries no termination phrase the turn is not finished; the 15th message is
\* answered finished = TRUE by the fixed message after 15 LLM sends in all (the
\* opening call and 14 answers); a 15th message reaches the LLM only as
\* time_up, and no 16th message is processed.
C5_FifteenAnswers ==
    \A c \in Chans :
        LET f == ws[c] IN
        (f.session_id \in DOMAIN objects /\ f.ending # "rejected" /\ f.q_at_open = 0)
        => /\ f.n_recv <= MaxQuestions
           /\ (f.pc = "llm" /\ f.n_recv = MaxQuestions) => f.is_time_up
           /\ (f.pc \in {"tts", "send_audio"} /\ f.phase = "loop" /\ ~f.is_time_up)
               => /\ (f.n_recv < MaxQuestions
                        /\ f.ai_text = clean_text_for_tts(ReplyQuestion))
                      => ~f.is_finished
                  /\ f.n_recv = MaxQuestions
                      => /\ f.is_finished
                         /\ f.ai_text = LimitMessage
                         /\ Session(c).chat = MaxQuestions

\* the 15th answer of a fresh session has been answered finished = TRUE
C5_Witness ==
    \E c \in Chans :
        /\ ws[c].pc = "send_audio"
        /\ ws[c].q_at_open = 0
        /\ ws[c].n_recv = MaxQuestions
        /\ ~ws[c].is_time_up
        /\ ws[c].is_finished
        /\ Session(c).chat = MaxQuestions

C7_FailedLayerFallsThrough ==
    LET LayerFailed(x) == x \in {"empty", "timeout", "error"} IN
    synth.done
    => /\ LayerFailed(synth.o[1]) => synth.result.attempted >= 2
       /\ (LayerFailed(synth.o[1]) /\ LayerFailed(synth.o[2]))
           => synth.result.attempted = 3
       /\ synth.result.value = <<>>
           => /\ synth.result.attempted = 3
              /\ LayerFailed(synth.o[1])
              /\ LayerFailed(synth.o[2])
              /\ LayerFailed(synth.o[3])

\* every layer of the synthesis o raised or timed out
AllLayersRaised(o) == o # <<>> /\ \A i \in 1..3 : o[i] \in {"timeout", "error"}

\* C8: when all three layers raise or time out, generate_audio_stream returns
\* the empty payload to the handler (which does not end on an exception), and
\* the handler's next send is the turn's audio message with the text and
\* empty data.
C8_AllLayersFail ==
    [][\A c \in Chans :
        /\ ws[c].ending # "synth_raised"
        /\ (ws[c].pc = "send_audio" /\ AllLayersRaised(ws[c].tts))
            => /\ ws[c].audio_b64 = <<>>
               /\ (ws[c].client_open /\ ws'[c].pc # "send_audio")
                   => /\ ws'[c].out = [type |-> "audio", data |-> <<>>,
                                       text |-> ws[c].ai_text, is_finished |-> FALSE]
                      /\ ws'[c].n_audio = ws[c].n_audio + 1]_vars

\* an audio message with a question and no audio has gone out after all three
\* layers raised
C8_Witness ==
    \E c \in Chans :
        /\ ws[c].pc = "receive"
        /\ AllLayersRaised(ws[c].tts)
        /\ ws[c].out.type = "audio"
        /\ ws[c].out.data = <<>>
        /\ ws[c].out.text = clean_text_for_tts(ReplyQuestion)

\* C9 as claimed, for accepted connections that ended by the client's close
\* or by the handler's return: once the connection is closed the session id
\* is not in the registry.
C9_ClosedMeansReleased ==
    \A c \in Chans :
        (ws[c].pc = "closed" /\ ws[c].ending \in {"disconnected", "returned"})
        => ws[c].session_id \notin sessions

\* C10 as claimed: once the feedback message has gone out and the handler
\* has ended, the session id is out of the registry, and a connection opened
\* with that id afterwards is rejected with the close code of an unknown
\* session.
C10_DestroyedAfterFeedback ==
    [][\A c \in Chans :
        (/\ ws[c].pc = "closed"
         /\ ws[c].n_feedback = 1
         /\ opens' = opens + 1
         /\ ws'[c].session_id = ws[c].session_id)
        => /\ ws[c].session_id \notin sessions
           /\ ws'[c].ending = "rejected"
           /\ ws'[c].close_code = CloseNotFound]_vars

\* C11: on a connection whose client stays connected, one audio message has
\* gone out for the opening turn and for every client message processed; the
\* feedback message goes out at most once, from generate_feedback only, which
\* is entered right after the audio message of a turn of the loop whose
\* finished flag is true; once the feedback message has gone out the handler
\* sends nothing more, receives nothing more and makes no LLM call.
C11_OneAudioPerTurn ==
    [][\A c \in Chans :
        LET f == ws[c] IN
        /\ f.n_feedback <= 1
        /\ f.n_audio <= f.n_recv + 1
        /\ (f.client_open /\ f.pc \in {"llm", "tts", "send_audio"})
            => f.n_audio = f.n_recv /\ f.n_feedback = 0
        /\ (f.client_open /\ f.pc = "receive")
            => f.n_audio = f.n_recv + 1 /\ f.n_feedback = 0
        /\ (f.client_open /\ f.pc \in {"llm_feedback", "send_feedback"})
            => /\ f.n_audio = f.n_recv + 1
               /\ f.n_feedback = 0
               /\ f.is_finished
               /\ f.phase = "loop"
        /\ (f.client_open /\ f.pc = "llm_feedback") => f.out.type = "audio"
        /\ (ws'[c].pc = "send_feedback" /\ f.pc # "send_feedback")
            => f.pc = "llm_feedback"
        /\ ws'[c].n_feedback # f.n_feedback
            => /\ f.pc = "send_feedback"
               /\ ws'[c].out.type = "feedback"
               /\ ws'[c].pc = "closed"
        /\ f.n_feedback = 1
            => /\ f.pc = "closed"
               /\ ws'[c] = f
               /\ (f.session_id \in DOMAIN objects
                     => objects'[f.session_id] = objects[f.session_id])]_vars

\* a connection that took three client messages has ended with four audio
\* messages and the feedback message sent
C11_Witness ==
    \E c \in Chans :
        /\ ws[c].pc = "closed"
        /\ ws[c].client_open
        /\ ws[c].n_recv = 3
        /\ ws[c].n_audio = 4
        /\ ws[c].n_feedback = 1
        /\ ws[c].out.type = "feedback"

\* C12 as claimed: when self.chat.send_message raises in a call the handler
\* made (get_next_response or generate_feedback), the handler ends, the
\* connection is closed and the session id is out of the registry.
C12_LLMFailureDropsSession ==
    \A c \in Chans :
        (ws[c].pc = "closed" /\ ws[c].ending = "raised")
        => ws[c].session_id \notin sessions

\* C13: a connection opened with a session id that is not in the registry is
\* closed with code 4004 in the same step: no message has been sent or
\* received on it, no LLM call and no synthesis has been made for it, and the
\* registry and every session object are as before; no connection that was
\* accepted carries that close code.
C13_UnknownSessionRejected ==
    [][\A c \in Chans :
        /\ (opens' = opens + 1 /\ ws'[c] # ws[c] /\ ws'[c].session_id \notin sessions)
            => /\ ws'[c].pc = "closed"
               /\ ws'[c].ending = "rejected"
               /\ ws'[c].close_code = 4004
               /\ ws'[c].out = NoMessage
               /\ ws'[c].n_audio = 0 /\ ws'[c].n_feedback = 0 /\ ws'[c].n_recv = 0
               /\ ws'[c].prompt = NoPrompt
               /\ ws'[c].tts = NoTts
               /\ sessions' = sessions
               /\ objects' = objects
        /\ ws[c].ending # "rejected" => ws[c].close_code # 4004]_vars

\* a connection opened on an id the upload endpoint never handed out has been
\* closed with 4004 while a session is registered
C13_Witness ==
    \E c \in Chans :
        /\ ws[c].pc = "closed"
        /\ ws[c].session_id \in UnknownIds
        /\ ws[c].close_code = 4004
        /\ sessions # {}

\* C14 as claimed: an upload request with job-description text whose resume
\* document yields no text (its pages extract to nothing, or the document
\* cannot be read at all) is answered 200 and registers a new session with
\* empty resume text under a fresh id; a request without job-description text
\* is rejected and registers nothing.
C14_ExtractionFailureDegrades ==
    [][\A resume \in ResumeDocs, resume_text \in ResumeTexts, jd \in JdTexts :
        UploadContext(resume, resume_text, jd)
        => /\ (jd # None /\ resume \in {"pdf_blank", "pdf_broken"})
               => /\ upload_response' = 200
                  /\ \E id \in sessions' \ sessions :
                        /\ id \notin DOMAIN objects
                        /\ objects'[id].resume_text = <<>>
           /\ jd = None
               => /\ upload_response' # 200
                  /\ sessions' = sessions
                  /\ objects' = objects]_vars

\* C15 as claimed: while one connection's handler is running on a session
\* id, no other connection's handler calls get_next_response on that session.
C15_OneDriverPerSession ==
    [][\A c \in Chans, d \in Chans :
        (/\ c # d
         /\ ws[d].pc \notin {"idle", "closed"}
         /\ ws[d].client_open
         /\ ws'[c].session_id = ws[d].session_id)
        => ~AdvanceCalled(c)]_vars

\* C16: for every text over '*', '#', blank, newline and a letter, the
\* text clean_text_for_tts returns holds neither '*' nor '#', neither starts
\* nor ends with whitespace, and is returned unchanged when cleaned again.
C16_CleanText ==
    cleaned.done
    => /\ \A i \in 1..Len(cleaned.once) : cleaned.once[i] \notin {"*", "#"}
       /\ cleaned.once # <<>>
           => /\ cleaned.once[1] \notin Whitespace
              /\ cleaned.once[Len(cleaned.once)] \notin Whitespace
       /\ cleaned.twice = cleaned.once

\* a text whose whitespace shows only once the markup is gone has been cleaned
C16_Witness ==
    /\ cleaned.done
    /\ cleaned.text = <<"*", " ", "a", "#">>
    /\ cleaned.once = <<"a">>

\* C17 as claimed: once the audio message of a turn for which
\* get_next_response returned finished = TRUE has gone out, the opening turn
\* included, the handler goes on to the feedback and takes no client message.
C17_FinishedTurnEnds ==
    [][\A c \in Chans :
        (/\ ws[c].pc = "send_audio"
         /\ ws[c].returned
         /\ ws[c].client_open
         /\ ws'[c].pc # "send_audio")
        => ws'[c].pc = "llm_feedback"]_vars

\* what a session is created with and no call writes
SessionSetup(s) ==
    <<s.persona, s.voice_id, s.backup_tld, s.resume_text, s.jd_text, s.max_questions>>

\* C18: a get_next_response call on the TimeUp path or on the turn-limit
\* path leaves question_count and the transcript as they are, from its call
\* to its return; no step of any call, generate_feedback's included, changes
\* the persona, voice id, backup tld, resume text, job-description text or
\* max_questions of a session.
C18_FrameOfCalls ==
    [][/\ \A id \in DOMAIN objects : SessionSetup(objects'[id]) = SessionSetup(objects[id])
       /\ \A c \in Chans :
            LET id == ws[c].session_id
                TimeUpCalled == AdvanceCalled(c) /\ ws'[c].pc = "llm"
                                  /\ ws'[c].args.is_time_up
                TimeUpReplied == AdvanceReplied(c) /\ ws[c].args.is_time_up
                LimitPath == AdvanceCalled(c) /\ ws'[c].pc = "tts"
                Feedback == ws[c].pc \in {"llm_feedback", "send_feedback"}
                              \/ ws'[c].pc = "llm_feedback"
            IN  (TimeUpCalled \/ TimeUpReplied \/ LimitPath \/ Feedback)
                => /\ objects'[id].question_count = objects[id].question_count
                   /\ objects'[id].transcript = objects[id].transcript]_vars

\* a TimeUp call has returned on a session that had recorded two turns
C18_Witness ==
    \E c \in Chans :
        /\ ws[c].pc = "tts"
        /\ ws[c].is_time_up
        /\ ws[c].returned
        /\ Session(c).question_count = 2
        /\ Len(Session(c).transcript) = 4

\* the transcript holds one user entry and then one assistant entry per turn
\* counted
TranscriptShape(s) ==
    /\ Len(s.transcript) = 2 * s.question_count
    /\ \A i \in 1..Len(s.transcript) :
          s.transcript[i].speaker = (IF i % 2 = 1 THEN "User" ELSE "AI")

\* C19: every step leaves each session's transcript as it was or longer with
\* the old entries in place, and before and after every step (so also
\* whenever no get_next_response call is in progress) the transcript is
\* 2 * question_count long, user entries at the odd positions and assistant
\* entries at the even ones.
C19_TranscriptAppendOnly ==
    [][\A id \in DOMAIN objects :
        LET old == objects[id].transcript
            new == objects'[id].transcript
        IN  /\ Len(old) <= Len(new)
            /\ SubSeq(new, 1, Len(old)) = old
            /\ TranscriptShape(objects[id])
            /\ TranscriptShape(objects'[id])]_vars

\* three turns are on record and the handler is waiting for the client
C19_Witness ==
    \E c \in Chans :
        /\ ws[c].pc = "receive"
        /\ Session(c).question_count = 3
        /\ Len(Session(c).transcript) = 6
        /\ Session(c).transcript[5].speaker = "User"
        /\ Session(c).transcript[6].speaker = "AI"

\* C20 as claimed: with two connections on one session whose calls
\* interleave at the LLM await, question_count never exceeds max_questions,
\* and neither does the number of LLM sends made by calls that are no TimeUp
\* calls (the turns counted plus the sends awaiting their reply).
C20_InterleavedCallsBounded ==
    \A id \in DOMAIN objects :
        LET InFlight == {c \in Chans : /\ ws[c].session_id = id
                                       /\ ws[c].pc = "llm"
                                       /\ ~ws[c].args.is_time_up}
        IN  /\ objects[id].question_count <= objects[id].max_questions
            /\ objects[id].question_count + Cardinality(InFlight)
                 <= objects[id].max_questions

====
